---- MODULE Spec2Model ----
(***************************************************************************)
(* Model of src/bot.py (TeamBot): the team registry `teams`, the shared    *)
(* category reference `teams_category`, the JSON snapshot file and the     *)
(* asynchronous handlers join_team_button, leave_team and setup_ticket.    *)
(*                                                                         *)
(* The handlers are asyncio coroutines on one event loop: the code between *)
(* two `await`s runs without interruption, and at every `await` of a       *)
(* platform call the handler is suspended and any other handler may run.   *)
(* One action of the model is therefore one such uninterrupted stretch:    *)
(* from the start of a handler (or the completion of the awaited call) to  *)
(* the next await.  pc[p] names the platform call handler p is waiting on. *)
(* Every awaited platform call may also raise (PlatformError in the spec). *)
(***************************************************************************)
EXTENDS Integers, Sequences, FiniteSets, TLC

\* ------------------------------------------------------------------ bounds
NumUsers   == 2      \* user identifiers 1..NumUsers
MaxProcs   == 2      \* handlers that may be in flight at the same time
MaxCreates == 2      \* create_team calls over the whole run
TEAM_SIZE  == 2      \* the configured capacity (bot.py:26,37), kept small

Users == 1..NumUsers
Procs == 1..MaxProcs

VARIABLES
    teams,            \* bot.py:58   team number -> team record
    teams_category,   \* bot.py:59   0 is None, otherwise a category id
    categories,       \* guild.categories named CATEGORY_NAME (ids)
    snapshot,         \* the contents of DATA_FILE
    pc,               \* per handler slot: "idle" or the awaited call
    user,             \* per slot: interaction.user.id (0 when idle or setup)
    assigned_team,    \* per slot: assigned_team / user_team / team_num
    attempt,          \* per slot: number of its create_team call (0: none)
    mutated,          \* per slot: the running handler has written `teams`
    nCreates,         \* create_team calls made so far
    justLeft,         \* history: the users whose last roster change was the
                      \* removal by their leave, whose leave reported no error
                      \* and who have started no join since
    phase,            \* the process: "down", "syncing" (on_ready awaits
                      \* tree.sync, 495) or "ready" (on_ready has finished)
    guild_id,         \* bot.py:25  TRUE when GUILD_ID is configured
    loaded,           \* history: load_teams_data has run in this process
    deleted,          \* ids of roles and channels deleted on the platform
    disk,             \* "ok", or "failing": writing DATA_FILE raises
    writeFailed       \* history: a write of DATA_FILE has failed

vars == <<teams, teams_category, categories, snapshot, pc, user,
          assigned_team, attempt, mutated, nCreates, justLeft,
          phase, guild_id, loaded, deleted, disk, writeFailed>>

\* What the handlers of requests never write.
process == <<phase, guild_id, loaded, deleted, disk>>

\* ------------------------------------------------------- platform objects
\* The platform returns a fresh object from every create call.  Only the
\* identity of the objects matters, so the four objects made by the a-th
\* create_team call are named by a and the call that made them.
RoleId(a)      == 10 * a + 1      \* guild.create_role ("Team n Member")
CoachRoleId(a) == 10 * a + 2      \* guild.create_role ("Team n Coach")
TextId(a)      == 10 * a + 3      \* guild.create_text_channel
VoiceId(a)     == 10 * a + 4      \* guild.create_voice_channel

\* guild.create_category returns a category that was not there before.  Id 1
\* is the category named CATEGORY_NAME that a guild may hold before the bot
\* has created any; the categories the bot creates are numbered from 2.
NewCategoryId(cats) == Cardinality(cats \cup {1}) + 1

\* ------------------------------------------------------------ pure helpers
InRoster(members, u) == \E i \in 1..Len(members) : members[i] = u

Min(S) == CHOOSE x \in S : \A y \in S : x <= y

\* list.remove(x): removes the first occurrence of x.
RemoveFirst(s, x) ==
    LET i == Min({k \in 1..Len(s) : s[k] = x})
    IN  [k \in 1..(Len(s) - 1) |-> IF k < i THEN s[k] ELSE s[k + 1]]

\* Mutant of FindUserTeam: the scan compares the user with the first entry
\* of each roster only.
FindUserTeam_FirstEntryOnly(tm, u) ==
    LET S == {t \in DOMAIN tm : Len(tm[t].members) > 0 /\ tm[t].members[1] = u}
    IN  IF S = {} THEN 0 ELSE Min(S)

\* The membership scan of join (175-176) and leave (400-403): the first team
\* in iteration order whose roster holds the user, 0 if there is none.  The
\* keys of `teams` are inserted in ascending order (a new key is always
\* len(teams)+1 and load_teams_data reads them in the order they were
\* written), so the iteration order of the dict is the ascending order.
FindUserTeam(tm, u) ==
    LET S == {t \in DOMAIN tm : InRoster(tm[t].members, u)}
    IN  IF S = {} THEN 0 ELSE Min(S)

\* bot.py:184-188
FindTeamWithCapacity(tm) ==
    LET S == {t \in DOMAIN tm : Len(tm[t].members) < TEAM_SIZE}
    IN  IF S = {} THEN 0 ELSE Min(S)

\* bot.py:192
AllocateTeamId(tm) == Cardinality(DOMAIN tm) + 1

\* bot.py:197
AddMember(tm, t, u) ==
    [tm EXCEPT ![t].members = Append(@, u)]

\* Mutant of RemoveMember: the last entry of the roster is removed (pop()).
RemoveMember_Pop(tm, t, u) ==
    [tm EXCEPT ![t].members = SubSeq(@, 1, Len(@) - 1)]

\* bot.py:412
RemoveMember(tm, t, u) ==
    [tm EXCEPT ![t].members = RemoveFirst(@, u)]

\* bot.py:299-305: an assignment to teams[team_number]; an existing entry
\* under that key is replaced.
RegisterTeam(tm, t, a) ==
    [k \in (DOMAIN tm) \cup {t} |->
        IF k = t
        THEN [members |-> <<>>, role |-> RoleId(a), coach_role |-> CoachRoleId(a),
              text |-> TextId(a), voice |-> VoiceId(a)]
        ELSE tm[k]]

\* ----------------------------------------------------------- the snapshot
\* json.dump writes the integer keys of a dict as decimal strings; a string
\* is modelled as its sequence of digits.
RECURSIVE IntToStr(_)
IntToStr(n) ==
    IF n < 10 THEN <<n>> ELSE Append(IntToStr(n \div 10), n % 10)

NoFile == [exists |-> FALSE, teams |-> <<>>, category_id |-> 0]

\* bot.py:99-111: the data written by save_teams_data.
SnapshotOf(tm, cat) ==
    [exists |-> TRUE,
     teams |-> [k \in {IntToStr(t) : t \in DOMAIN tm} |->
                  LET t == CHOOSE x \in DOMAIN tm : IntToStr(x) = k
                  IN  [members |-> tm[t].members,
                       role_id |-> tm[t].role,
                       coach_role_id |-> tm[t].coach_role,
                       text_channel_id |-> tm[t].text,
                       voice_channel_id |-> tm[t].voice]],
     category_id |-> cat]

\* A file that open(DATA_FILE, 'w') has truncated and json.dump did not
\* finish: it holds no data (json.load raises on it and nothing is loaded).
TruncatedFile == [exists |-> TRUE, teams |-> <<>>, category_id |-> 0]

\* bot.py:96-116: save_teams_data writes the file; when the write raises
\* (115-116) the error is logged and the function returns normally, the file
\* being as it was (open raised) or truncated (json.dump raised).
SaveTeamsData(tm, cat) ==
    IF disk = "ok"
    THEN /\ snapshot' = SnapshotOf(tm, cat)
         /\ UNCHANGED writeFailed
    ELSE /\ snapshot' \in {snapshot, TruncatedFile}
         /\ writeFailed' = TRUE

\* ------------------------------------------------------- handler positions
JoinPcs  == {"j_reject", "c_category", "c_member_role", "c_coach_role", "c_text",
             "c_voice", "c_welcome", "j_add_roles", "j_respond", "j_announce",
             "j_error"}
LeavePcs == {"l_reject", "l_remove_roles", "l_respond", "l_announce", "l_error"}
SetupPcs == {"s_category", "s_post", "s_followup", "s_error"}

\* The awaits of create_team before the team is stored (239-290).
ProvisioningPcs == {"c_category", "c_member_role", "c_coach_role", "c_text", "c_voice"}

\* ------------------------------------------------------------------- Init
Init ==
    /\ teams = <<>>
    /\ teams_category = 0
    /\ categories \in {{}, {1}}
    /\ snapshot = NoFile
    /\ pc = [p \in Procs |-> "idle"]
    /\ user = [p \in Procs |-> 0]
    /\ assigned_team = [p \in Procs |-> 0]
    /\ attempt = [p \in Procs |-> 0]
    /\ mutated = [p \in Procs |-> FALSE]
    /\ nCreates = 0
    /\ justLeft = {}
    /\ phase = "ready"
    /\ guild_id = TRUE
    /\ loaded = TRUE
    /\ deleted = {}
    /\ disk = "ok"
    /\ writeFailed = FALSE

\* A new handler takes the lowest free slot.
FreeSlot(p) ==
    /\ pc[p] = "idle"
    /\ \A q \in Procs : q < p => pc[q] # "idle"

\* The handler in slot p has returned.
Return(p) ==
    /\ pc' = [pc EXCEPT ![p] = "idle"]
    /\ user' = [user EXCEPT ![p] = 0]
    /\ assigned_team' = [assigned_team EXCEPT ![p] = 0]
    /\ attempt' = [attempt EXCEPT ![p] = 0]
    /\ mutated' = [mutated EXCEPT ![p] = FALSE]

\* The except block of the handler in slot p is entered: it awaits the error
\* message to the requester (join 222, leave 433, setup 382).
Raise(p, handler) ==
    /\ pc' = [pc EXCEPT ![p] = handler]
    /\ UNCHANGED <<teams, teams_category, categories, snapshot, user,
                   assigned_team, attempt, mutated, nCreates, justLeft>>

\* bot.py:64-91, up to the await of guild.create_category: the pc the caller
\* continues at is `found` when the category is known, `wait` otherwise.  One
\* guild is modelled, so the guild comparison of line 71 always succeeds.
GetOrCreateCategory(p, found, wait) ==
    IF teams_category # 0
    THEN /\ pc' = [pc EXCEPT ![p] = found]
         /\ UNCHANGED teams_category
    ELSE IF categories # {}
    THEN /\ teams_category' = Min(categories)
         /\ pc' = [pc EXCEPT ![p] = found]
    ELSE /\ pc' = [pc EXCEPT ![p] = wait]
         /\ UNCHANGED teams_category

\* ------------------------------------------------- join_team_button (167)
\* bot.py:175-181: the user is already in a roster; the handler awaits the
\* rejection message.
JoinReject(p, u) ==
    /\ FindUserTeam(teams, u) # 0
    /\ pc' = [pc EXCEPT ![p] = "j_reject"]
    /\ assigned_team' = [assigned_team EXCEPT ![p] = FindUserTeam(teams, u)]
    /\ UNCHANGED <<teams, teams_category, attempt, mutated, nCreates>>

\* bot.py:184-199 with a team found: the user is appended (197) and the
\* handler awaits user.add_roles (199).
JoinExisting(p, u) ==
    /\ FindUserTeam(teams, u) = 0
    /\ FindTeamWithCapacity(teams) # 0
    /\ LET t == FindTeamWithCapacity(teams)
       IN  /\ teams' = AddMember(teams, t, u)
           /\ assigned_team' = [assigned_team EXCEPT ![p] = t]
    /\ pc' = [pc EXCEPT ![p] = "j_add_roles"]
    /\ mutated' = [mutated EXCEPT ![p] = TRUE]
    /\ UNCHANGED <<teams_category, attempt, nCreates>>

\* bot.py:191-194 and create_team up to its first await (232-244): no team
\* has capacity, the number is allocated and create_team is entered.
JoinCreate(p, u) ==
    /\ FindUserTeam(teams, u) = 0
    /\ FindTeamWithCapacity(teams) = 0
    /\ nCreates < MaxCreates
    /\ nCreates' = nCreates + 1
    /\ attempt' = [attempt EXCEPT ![p] = nCreates + 1]
    /\ assigned_team' = [assigned_team EXCEPT ![p] = AllocateTeamId(teams)]
    /\ GetOrCreateCategory(p, "c_member_role", "c_category")
    /\ UNCHANGED <<teams, mutated>>

\* The button is dispatched to the view once on_ready has registered it
\* (bot.add_view, 511).
JoinStart(p, u) ==
    /\ phase = "ready"
    /\ FreeSlot(p)
    /\ user' = [user EXCEPT ![p] = u]
    /\ \/ JoinReject(p, u)
       \/ JoinExisting(p, u)
       \/ JoinCreate(p, u)
    /\ justLeft' = justLeft \ {u}
    /\ UNCHANGED <<categories, snapshot>>
    /\ UNCHANGED <<process, writeFailed>>

\* bot.py:177-181: the rejection message has been sent.
JoinRejectDone(p) ==
    /\ pc[p] = "j_reject"
    /\ Return(p)
    /\ UNCHANGED <<teams, teams_category, categories, snapshot, nCreates, justLeft>>
    /\ UNCHANGED <<process, writeFailed>>

\* ------------------------------------------------------ create_team (232)
\* bot.py:85-91: guild.create_category has returned; the caller is
\* create_team (239) or setup_ticket (348).
CreateCategoryDone(p) ==
    /\ pc[p] \in {"c_category", "s_category"}
    /\ categories' = categories \cup {NewCategoryId(categories)}
    /\ teams_category' = NewCategoryId(categories)
    /\ pc' = [pc EXCEPT ![p] = IF pc[p] = "c_category" THEN "c_member_role" ELSE "s_post"]
    /\ UNCHANGED <<teams, snapshot, user, assigned_team, attempt, mutated,
                   nCreates, justLeft>>
    /\ UNCHANGED <<process, writeFailed>>

\* A step of create_team that only moves on to the next await.
Advance(p, from, to) ==
    /\ pc[p] = from
    /\ pc' = [pc EXCEPT ![p] = to]
    /\ UNCHANGED <<teams, teams_category, categories, snapshot, user,
                   assigned_team, attempt, mutated, nCreates, justLeft>>
    /\ UNCHANGED <<process, writeFailed>>

\* bot.py:244-251: the member role exists, the coach role is requested.
CreateMemberRoleDone(p) == Advance(p, "c_member_role", "c_coach_role")

\* Mutant of CreateCoachRoleDone: the text channel is not requested, the
\* voice channel follows the coach role.
CreateCoachRoleDone_SkipsText(p) == Advance(p, "c_coach_role", "c_voice")

\* bot.py:251-281: the coach role exists, the text channel is requested.
CreateCoachRoleDone(p) == Advance(p, "c_coach_role", "c_text")

\* bot.py:281-290: the text channel exists, the voice channel is requested.
CreateTextChannelDone(p) == Advance(p, "c_text", "c_voice")

\* bot.py:290-320: the voice channel exists; the team is stored under its
\* number (299) and the welcome message is sent (320).
CreateVoiceChannelDone(p) ==
    /\ pc[p] = "c_voice"
    /\ teams' = RegisterTeam(teams, assigned_team[p], attempt[p])
    /\ pc' = [pc EXCEPT ![p] = "c_welcome"]
    /\ mutated' = [mutated EXCEPT ![p] = TRUE]
    /\ UNCHANGED <<teams_category, categories, snapshot, user, assigned_team,
                   attempt, nCreates, justLeft>>
    /\ UNCHANGED <<process, writeFailed>>

\* bot.py:320-324 and 196-199: the welcome message is sent, create_team
\* saves and returns, the join appends the user and awaits user.add_roles.
WelcomeDone(p) ==
    /\ pc[p] = "c_welcome"
    /\ SaveTeamsData(teams, teams_category)
    /\ teams' = AddMember(teams, assigned_team[p], user[p])
    /\ pc' = [pc EXCEPT ![p] = "j_add_roles"]
    /\ attempt' = [attempt EXCEPT ![p] = 0]
    /\ justLeft' = justLeft \ {user[p]}
    /\ UNCHANGED <<teams_category, categories, user, assigned_team,
                   mutated, nCreates>>
    /\ UNCHANGED process

\* Mutant of CreateTeamFail: the team is stored before its resources are
\* complete, so a failed provisioning call leaves it in the registry.
CreateTeamFail_StoresTeam(p) ==
    /\ pc[p] \in ProvisioningPcs
    /\ teams' = RegisterTeam(teams, assigned_team[p], attempt[p])
    /\ pc' = [pc EXCEPT ![p] = "j_error"]
    /\ UNCHANGED <<teams_category, categories, snapshot, user, assigned_team,
                   attempt, mutated, nCreates, justLeft>>
    /\ UNCHANGED <<process, writeFailed>>

\* bot.py:326-328 and 219-227: a provisioning call of create_team raised;
\* create_team re-raises and the join reports the error.
CreateTeamFail(p) ==
    /\ pc[p] \in ProvisioningPcs
    /\ Raise(p, "j_error")
    /\ UNCHANGED <<process, writeFailed>>

\* bot.py:320, 326-328 and 219-227: sending the welcome message raised.
WelcomeFail(p) ==
    /\ pc[p] = "c_welcome"
    /\ Raise(p, "j_error")
    /\ UNCHANGED <<process, writeFailed>>

\* --------------------------------------------- join_team_button, the rest
\* Mutant of AddRolesDone: save_teams_data does not catch the error of a
\* failed write, which reaches the except block of the join.
AddRolesDone_SaveRaises(p) ==
    /\ pc[p] = "j_add_roles"
    /\ SaveTeamsData(teams, teams_category)
    /\ pc' = [pc EXCEPT ![p] = IF disk = "ok" THEN "j_respond" ELSE "j_error"]
    /\ UNCHANGED <<teams, teams_category, categories, user, assigned_team,
                   attempt, mutated, nCreates, justLeft>>
    /\ UNCHANGED process

\* bot.py:199-209: the role is assigned; the data is saved and the welcome
\* answer is sent.
AddRolesDone(p) ==
    /\ pc[p] = "j_add_roles"
    /\ SaveTeamsData(teams, teams_category)
    /\ pc' = [pc EXCEPT ![p] = "j_respond"]
    /\ UNCHANGED <<teams, teams_category, categories, user, assigned_team,
                   attempt, mutated, nCreates, justLeft>>
    /\ UNCHANGED process

\* bot.py:203-215: the requester has the answer; the team channel is told.
JoinRespondDone(p) ==
    /\ pc[p] = "j_respond"
    /\ pc' = [pc EXCEPT ![p] = "j_announce"]
    /\ UNCHANGED <<teams, teams_category, categories, snapshot, user,
                   assigned_team, attempt, mutated, nCreates, justLeft>>
    /\ UNCHANGED <<process, writeFailed>>

\* bot.py:212-217: the handler returns.  When team_channel.send raises
\* instead, the second answer of the except block (222) is refused because
\* the interaction is answered already, so the requester keeps the answer.
JoinAnnounceDone(p) ==
    /\ pc[p] = "j_announce"
    /\ Return(p)
    /\ UNCHANGED <<teams, teams_category, categories, snapshot, nCreates, justLeft>>
    /\ UNCHANGED <<process, writeFailed>>

\* bot.py:219-227: user.add_roles (199) or the answer (203) raised.
JoinFail(p) ==
    /\ pc[p] \in {"j_reject", "j_add_roles", "j_respond"}
    /\ Raise(p, "j_error")
    /\ UNCHANGED <<process, writeFailed>>

\* ------------------------------------------------------- leave_team (394)
\* bot.py:398-410: the user is in no roster.
LeaveReject(p, u) ==
    /\ FindUserTeam(teams, u) = 0
    /\ pc' = [pc EXCEPT ![p] = "l_reject"]
    /\ UNCHANGED <<teams, assigned_team, mutated, justLeft>>

\* bot.py:398-414: the user is removed from the roster (412) and the
\* handler awaits user.remove_roles (414).
LeaveRemove(p, u) ==
    /\ FindUserTeam(teams, u) # 0
    /\ LET t == FindUserTeam(teams, u)
       IN  /\ teams' = RemoveMember(teams, t, u)
           /\ assigned_team' = [assigned_team EXCEPT ![p] = t]
    /\ pc' = [pc EXCEPT ![p] = "l_remove_roles"]
    /\ mutated' = [mutated EXCEPT ![p] = TRUE]
    /\ justLeft' = justLeft \cup {u}

LeaveStart(p, u) ==
    /\ phase # "down"
    /\ FreeSlot(p)
    /\ user' = [user EXCEPT ![p] = u]
    /\ \/ LeaveReject(p, u)
       \/ LeaveRemove(p, u)
    /\ UNCHANGED <<teams_category, categories, snapshot, attempt, nCreates>>
    /\ UNCHANGED <<process, writeFailed>>

\* bot.py:406-410
LeaveRejectDone(p) ==
    /\ pc[p] = "l_reject"
    /\ Return(p)
    /\ UNCHANGED <<teams, teams_category, categories, snapshot, nCreates, justLeft>>
    /\ UNCHANGED <<process, writeFailed>>

\* bot.py:414-421
RemoveRolesDone(p) ==
    /\ pc[p] = "l_remove_roles"
    /\ SaveTeamsData(teams, teams_category)
    /\ pc' = [pc EXCEPT ![p] = "l_respond"]
    /\ UNCHANGED <<teams, teams_category, categories, user, assigned_team,
                   attempt, mutated, nCreates, justLeft>>
    /\ UNCHANGED process

\* bot.py:418-427
LeaveRespondDone(p) ==
    /\ pc[p] = "l_respond"
    /\ pc' = [pc EXCEPT ![p] = "l_announce"]
    /\ UNCHANGED <<teams, teams_category, categories, snapshot, user,
                   assigned_team, attempt, mutated, nCreates, justLeft>>
    /\ UNCHANGED <<process, writeFailed>>

\* bot.py:424-429; when team_channel.send raises, the answer of the except
\* block (433) is refused and the requester keeps the answer of 418.
LeaveAnnounceDone(p) ==
    /\ pc[p] = "l_announce"
    /\ Return(p)
    /\ UNCHANGED <<teams, teams_category, categories, snapshot, nCreates, justLeft>>
    /\ UNCHANGED <<process, writeFailed>>

\* bot.py:431-436: the rejection (406), user.remove_roles (414) or the
\* answer (418) raised.
LeaveFail(p) ==
    /\ pc[p] \in {"l_reject", "l_remove_roles", "l_respond"}
    /\ pc' = [pc EXCEPT ![p] = "l_error"]
    /\ justLeft' = justLeft \ {user[p]}
    /\ UNCHANGED <<teams, teams_category, categories, snapshot, user,
                   assigned_team, attempt, mutated, nCreates>>
    /\ UNCHANGED <<process, writeFailed>>

\* ----------------------------------------------------- setup_ticket (338)
\* bot.py:340-348: after the deferral the category is looked up.
SetupStart(p) ==
    /\ phase # "down"
    /\ FreeSlot(p)
    /\ GetOrCreateCategory(p, "s_post", "s_category")
    /\ UNCHANGED <<teams, categories, snapshot, user, assigned_team, attempt,
                   mutated, nCreates, justLeft>>
    /\ UNCHANGED <<process, writeFailed>>

\* bot.py:368-376: the prompt is posted, the data is saved.
SetupPostDone(p) ==
    /\ pc[p] = "s_post"
    /\ SaveTeamsData(teams, teams_category)
    /\ pc' = [pc EXCEPT ![p] = "s_followup"]
    /\ UNCHANGED <<teams, teams_category, categories, user, assigned_team,
                   attempt, mutated, nCreates, justLeft>>
    /\ UNCHANGED process

\* bot.py:372-378
SetupFollowupDone(p) ==
    /\ pc[p] = "s_followup"
    /\ Return(p)
    /\ UNCHANGED <<teams, teams_category, categories, snapshot, nCreates, justLeft>>
    /\ UNCHANGED <<process, writeFailed>>

\* bot.py:380-385
SetupFail(p) ==
    /\ pc[p] \in {"s_category", "s_post", "s_followup"}
    /\ Raise(p, "s_error")
    /\ UNCHANGED <<process, writeFailed>>

\* The error message of an except block is sent (or sending it raised, which
\* the join swallows at 226 and the library logs for leave and setup).
ErrorDone(p) ==
    /\ pc[p] \in {"j_error", "l_error", "s_error"}
    /\ Return(p)
    /\ UNCHANGED <<teams, teams_category, categories, snapshot, nCreates, justLeft>>
    /\ UNCHANGED <<process, writeFailed>>

\* ------------------------------------------------------------------- Next
Handler(p) ==
        \/ \E u \in Users : JoinStart(p, u)
        \/ JoinRejectDone(p)
        \/ CreateCategoryDone(p)
        \/ CreateMemberRoleDone(p)
        \/ CreateCoachRoleDone(p)
        \/ CreateTextChannelDone(p)
        \/ CreateVoiceChannelDone(p)
        \/ WelcomeDone(p)
        \/ CreateTeamFail(p)
        \/ WelcomeFail(p)
        \/ AddRolesDone(p)
        \/ JoinRespondDone(p)
        \/ JoinAnnounceDone(p)
        \/ JoinFail(p)
        \/ \E u \in Users : LeaveStart(p, u)
        \/ LeaveRejectDone(p)
        \/ RemoveRolesDone(p)
        \/ LeaveRespondDone(p)
        \/ LeaveAnnounceDone(p)
        \/ LeaveFail(p)
        \/ SetupStart(p)
        \/ SetupPostDone(p)
        \/ SetupFollowupDone(p)
        \/ SetupFail(p)
        \/ ErrorDone(p)

\* The process is up and ready (on_ready has run) for the whole run; no
\* resource is deleted and the disk takes every write.
Next == \E p \in Procs : Handler(p)

Spec == Init /\ [][Next]_vars

\* ============================================== start, restore and shutdown
MaxDeleted == 1

\* Mutant of StrToInt: only the last digit of the key is read.
StrToInt_LastDigit(s) == s[Len(s)]

\* int(team_num_str), bot.py:135.
RECURSIVE StrToInt(_)
StrToInt(s) ==
    IF Len(s) = 0 THEN 0 ELSE 10 * StrToInt(SubSeq(s, 1, Len(s) - 1)) + s[Len(s)]

\* guild.get_role and guild.get_channel return None for a deleted resource.
Resolves(id) == id \notin deleted

\* Mutant of TeamResolves: only the two roles are looked at.
TeamResolves_RolesOnly(td) ==
    /\ Resolves(td.role_id)
    /\ Resolves(td.coach_role_id)

\* bot.py:138-144: all([role, coach_role, text_channel, voice_channel]).
TeamResolves(td) ==
    /\ Resolves(td.role_id)
    /\ Resolves(td.coach_role_id)
    /\ Resolves(td.text_channel_id)
    /\ Resolves(td.voice_channel_id)

\* bot.py:134-153: the registry after the loop of load_teams_data over the
\* file `snap`; a truncated file has no teams (json.load raises, 155-156).
LoadTeams(tm, snap) ==
    LET good == {k \in DOMAIN snap.teams : TeamResolves(snap.teams[k])}
        nums == {StrToInt(k) : k \in good}
    IN  [t \in DOMAIN tm \cup nums |->
            IF t \in nums
            THEN LET td == snap.teams[CHOOSE k \in good : StrToInt(k) = t]
                 IN  [members |-> td.members,
                      role |-> td.role_id,
                      coach_role |-> td.coach_role_id,
                      text |-> td.text_channel_id,
                      voice |-> td.voice_channel_id]
            ELSE tm[t]]

\* bot.py:130-131: teams_category after load_teams_data.
LoadCategory(cat, snap) ==
    IF snap.category_id # 0
    THEN IF snap.category_id \in categories THEN snap.category_id ELSE 0
    ELSE cat

\* bot.py:118-157
LoadTeamsData ==
    IF snapshot.exists
    THEN /\ teams' = LoadTeams(teams, snapshot)
         /\ teams_category' = LoadCategory(teams_category, snapshot)
    ELSE UNCHANGED <<teams, teams_category>>

\* bot.py:530-535: the process starts with the module's empty globals
\* (58-59); on_ready is entered and awaits tree.sync (495).
Start ==
    /\ phase = "down"
    /\ phase' = "syncing"
    /\ UNCHANGED <<teams, teams_category, categories, snapshot, pc, user,
                   assigned_team, attempt, mutated, nCreates, justLeft,
                   guild_id, loaded, deleted, disk, writeFailed>>

\* bot.py:495-511: tree.sync has returned (or raised, 497-498); the data is
\* loaded when GUILD_ID is set and the guild is found (502-507), and the view
\* of the join button is registered.
OnReady ==
    /\ phase = "syncing"
    /\ phase' = "ready"
    /\ IF guild_id
       THEN LoadTeamsData /\ loaded' = TRUE
       ELSE UNCHANGED <<teams, teams_category, loaded>>
    /\ UNCHANGED <<categories, snapshot, pc, user, assigned_team, attempt,
                   mutated, nCreates, justLeft, guild_id, deleted, disk,
                   writeFailed>>

\* bot.py:535-539: bot.run ends (the handlers in flight are cancelled with
\* the event loop) and the finally clause saves; the globals go with the
\* process.
Shutdown ==
    /\ phase # "down"
    /\ SaveTeamsData(teams, teams_category)
    /\ phase' = "down"
    /\ loaded' = FALSE
    /\ teams' = <<>>
    /\ teams_category' = 0
    /\ pc' = [p \in Procs |-> "idle"]
    /\ user' = [p \in Procs |-> 0]
    /\ assigned_team' = [p \in Procs |-> 0]
    /\ attempt' = [p \in Procs |-> 0]
    /\ mutated' = [p \in Procs |-> FALSE]
    /\ justLeft' = {}
    /\ UNCHANGED <<categories, nCreates, guild_id, deleted, disk>>

\* The ids in the file.
FileHandles ==
    UNION {{snapshot.teams[k].role_id, snapshot.teams[k].coach_role_id,
            snapshot.teams[k].text_channel_id, snapshot.teams[k].voice_channel_id}
           : k \in DOMAIN snapshot.teams}

\* A role or channel of a saved team is deleted on the platform.  A running
\* process keeps the objects in `teams`, so the deletion shows at the next
\* load only and is taken while the process is down.
DeleteResource ==
    /\ phase = "down"
    /\ Cardinality(deleted) < MaxDeleted
    /\ \E h \in FileHandles \ deleted : deleted' = deleted \cup {h}
    /\ UNCHANGED <<teams, teams_category, categories, snapshot, pc, user,
                   assigned_team, attempt, mutated, nCreates, justLeft,
                   phase, guild_id, loaded, disk, writeFailed>>

\* Writing DATA_FILE starts or stops raising (disk full, no permission).
DiskChange ==
    /\ disk' = IF disk = "ok" THEN "failing" ELSE "ok"
    /\ UNCHANGED <<teams, teams_category, categories, snapshot, pc, user,
                   assigned_team, attempt, mutated, nCreates, justLeft,
                   phase, guild_id, loaded, deleted, writeFailed>>

\* A fresh installation before its first start: no file, GUILD_ID set or not.
InitRestart ==
    /\ teams = <<>>
    /\ teams_category = 0
    /\ categories \in {{}, {1}}
    /\ snapshot = NoFile
    /\ pc = [p \in Procs |-> "idle"]
    /\ user = [p \in Procs |-> 0]
    /\ assigned_team = [p \in Procs |-> 0]
    /\ attempt = [p \in Procs |-> 0]
    /\ mutated = [p \in Procs |-> FALSE]
    /\ nCreates = 0
    /\ justLeft = {}
    /\ phase = "down"
    /\ guild_id \in BOOLEAN
    /\ loaded = FALSE
    /\ deleted = {}
    /\ disk = "ok"
    /\ writeFailed = FALSE

\* The process over its restarts, with one request handled at a time.
NextRestart ==
    \/ Handler(1)
    \/ Start
    \/ OnReady
    \/ Shutdown
    \/ DeleteResource
    \/ DiskChange

SpecRestart == InitRestart /\ [][NextRestart]_vars

\* ------------------------------------------------ save and load, by itself
\* The registries saved and loaded: teams 1, 2 and 10 (a key of two digits),
\* each with the resources of its creation and one of three rosters.
RoundTripIds == {1, 2, 10}

RoundTripRosters == {<<>>, <<1>>, <<2, 1>>}

RoundTripRegistries ==
    UNION {{[t \in S |-> [members |-> r[t], role |-> RoleId(t),
                          coach_role |-> CoachRoleId(t), text |-> TextId(t),
                          voice |-> VoiceId(t)]]
            : r \in [S -> RoundTripRosters]}
           : S \in SUBSET RoundTripIds}

\* A running process with one of these registries, no request in flight.
InitRoundTrip ==
    /\ teams \in RoundTripRegistries
    /\ teams_category = 1
    /\ categories = {1}
    /\ snapshot = NoFile
    /\ pc = [p \in Procs |-> "idle"]
    /\ user = [p \in Procs |-> 0]
    /\ assigned_team = [p \in Procs |-> 0]
    /\ attempt = [p \in Procs |-> 0]
    /\ mutated = [p \in Procs |-> FALSE]
    /\ nCreates = MaxCreates
    /\ justLeft = {}
    /\ phase = "ready"
    /\ guild_id = TRUE
    /\ loaded = TRUE
    /\ deleted = {}
    /\ disk = "ok"
    /\ writeFailed = FALSE

\* The registry is saved at shutdown, resources may be deleted, and the next
\* process loads the file.
NextRoundTrip ==
    \/ Shutdown
    \/ DeleteResource
    \/ Start
    \/ OnReady

SpecRoundTrip == InitRoundTrip /\ [][NextRoundTrip]_vars

\* ================================================================== claims
Roster(t) == teams[t].members

\* Handler p takes the step.
Steps(p) == pc'[p] # pc[p]

\* Handler p starts in this step as a join, or as a leave.
StartsJoin(p)  == pc[p] = "idle" /\ pc'[p] \in JoinPcs
StartsLeave(p) == pc[p] = "idle" /\ pc'[p] \in LeavePcs

\* C1: in every reachable state every team's roster has at most TEAM_SIZE
\* entries.
C1_RosterWithinCapacity ==
    \A t \in DOMAIN teams : Len(Roster(t)) <= TEAM_SIZE

\* C2: in every reachable state each user is in the roster of at most one
\* team.
C2_UserInAtMostOneTeam ==
    \A u \in Users : \A t1, t2 \in DOMAIN teams :
        InRoster(Roster(t1), u) /\ InRoster(Roster(t2), u) => t1 = t2

\* C3: the join and the leave protocol are critical sections: while one join
\* or leave is between its first read of the registry and its completion, no
\* other join or leave is running.
C3_MutualExclusion ==
    \A p, q \in Procs :
        pc[p] \in JoinPcs \cup LeavePcs /\ pc[q] \in JoinPcs \cup LeavePcs => p = q

\* C8: a join or leave that ends by reporting an error to the requester has
\* not changed the registry: no team added, no roster changed.
C8_ErrorLeavesRegistryUnchanged ==
    \A p \in Procs : pc[p] \in {"j_error", "l_error"} => ~mutated[p]

\* C10: ensureCategory is idempotent: over all calls, overlapping ones
\* included, at most one category is ever created.
C10_AtMostOneCategoryCreated ==
    Cardinality(categories \ {1}) <= 1

\* C4: a join of a user who is in no team appends the user to the team with
\* the lowest number whose roster is shorter than TEAM_SIZE; a new team is
\* stored only when no existing team has spare capacity, and the user is then
\* the first member of the new team.
C4_JoinPlacement ==
    [][\A p \in Procs :
          /\ (pc[p] = "idle" /\ pc'[p] = "j_add_roles") =>
                LET t == assigned_team'[p]
                IN  /\ t \in DOMAIN teams
                    /\ Len(Roster(t)) < TEAM_SIZE
                    /\ \A t2 \in DOMAIN teams :
                          t2 < t => Len(Roster(t2)) >= TEAM_SIZE
                    /\ teams'[t].members = Append(Roster(t), user'[p])
          /\ (pc[p] = "c_voice" /\ pc'[p] = "c_welcome") =>
                \A t \in DOMAIN teams : Len(Roster(t)) >= TEAM_SIZE
          /\ (pc[p] = "c_welcome" /\ pc'[p] = "j_add_roles") =>
                teams'[assigned_team[p]].members = <<user[p]>>
      ]_vars

\* What a request that is rejected must leave alone: the registry, the
\* snapshot, the category and the platform's resources.
NothingChanges ==
    UNCHANGED <<teams, snapshot, teams_category, categories, nCreates>>

\* C5: a join by a user who is in the roster of a team T is rejected with a
\* team that holds the user, and no step of that request changes a roster, a
\* team, the snapshot or the platform's resources.
C5_MemberJoinRejected ==
    [][\A p \in Procs :
          /\ (StartsJoin(p) /\ \E t \in DOMAIN teams : InRoster(Roster(t), user'[p])) =>
                /\ pc'[p] = "j_reject"
                /\ assigned_team'[p] \in DOMAIN teams
                /\ InRoster(Roster(assigned_team'[p]), user'[p])
                /\ NothingChanges
          /\ (pc[p] = "j_reject" /\ Steps(p)) =>
                /\ pc'[p] \in {"idle", "j_error"}
                /\ NothingChanges
      ]_vars

\* A join is being rejected because its user is in the roster of the team
\* named in the rejection.
C5_Witness ==
    \E p \in Procs :
        /\ pc[p] = "j_reject"
        /\ assigned_team[p] \in DOMAIN teams
        /\ InRoster(Roster(assigned_team[p]), user[p])

\* The sequence s without its i-th entry.
WithoutIndex(s, i) ==
    [k \in 1..(Len(s) - 1) |-> IF k < i THEN s[k] ELSE s[k + 1]]

\* C6: a leave by a user who is in no roster is rejected and leaves the
\* registry unchanged; a leave by a member of team T removes one entry, that
\* user's, from T's roster and leaves the other entries, the other teams and
\* all resource handles unchanged; no later step of the leave writes `teams`.
C6_LeaveFrame ==
    [][\A p \in Procs :
          /\ (StartsLeave(p) /\ \A t \in DOMAIN teams : ~InRoster(Roster(t), user'[p])) =>
                /\ pc'[p] = "l_reject"
                /\ UNCHANGED <<teams, teams_category>>
          /\ (StartsLeave(p) /\ \E t \in DOMAIN teams : InRoster(Roster(t), user'[p])) =>
                LET T == assigned_team'[p]
                IN  /\ pc'[p] = "l_remove_roles"
                    /\ T \in DOMAIN teams
                    /\ DOMAIN teams' = DOMAIN teams
                    /\ \A t \in DOMAIN teams : t # T => teams'[t] = teams[t]
                    /\ \E i \in 1..Len(Roster(T)) :
                          /\ Roster(T)[i] = user'[p]
                          /\ teams'[T] = [teams[T] EXCEPT !.members = WithoutIndex(@, i)]
                    /\ UNCHANGED teams_category
          /\ (pc[p] \in LeavePcs /\ Steps(p)) => UNCHANGED <<teams, teams_category>>
      ]_vars

\* A leave has removed its user from a roster that still holds another user.
C6_Witness ==
    \E p \in Procs :
        /\ pc[p] = "l_remove_roles"
        /\ assigned_team[p] \in DOMAIN teams
        /\ ~InRoster(Roster(assigned_team[p]), user[p])
        /\ Len(Roster(assigned_team[p])) >= 1

\* C7: a member who leaves and then joins again is not rejected as a
\* duplicate: the first join a user starts after their leave has removed them
\* and has been answered, with no other request of that user still running,
\* is never rejected as AlreadyMember.
C7_RejoinAfterLeave ==
    [][\A q \in Procs :
          (/\ StartsJoin(q)
           /\ user'[q] \in justLeft
           /\ \A r \in Procs : user[r] = user'[q] => pc[r] = "l_announce")
          => pc'[q] # "j_reject"
      ]_vars

\* C9: when a provisioning call of create_team fails, the attempt is aborted:
\* the handler has stored no team and added no user, the failing step and the
\* error report change no team, and the join reports the error.
C9_ProvisioningFailureAborts ==
    [][\A p \in Procs :
          /\ (pc[p] \in ProvisioningPcs /\ pc'[p] \notin ProvisioningPcs \cup {"c_welcome"}) =>
                /\ pc'[p] = "j_error"
                /\ ~mutated'[p]
                /\ UNCHANGED teams
          /\ (pc[p] = "j_error" /\ Steps(p)) => UNCHANGED teams
      ]_vars

\* A join reports the error of a failed provisioning call: its create_team
\* did not finish and it has written nothing to `teams`.
C9_Witness ==
    \E p \in Procs :
        /\ pc[p] = "j_error"
        /\ attempt[p] # 0
        /\ ~mutated[p]

\* The four resource handles of team t.
Handles(t) == <<teams[t].role, teams[t].coach_role, teams[t].text, teams[t].voice>>

\* C16: team ids are fresh: the step of create_team that stores the team
\* (bot.py:299) never writes under an id that is already a key of the
\* registry.
C16_CreationUnderFreshId ==
    [][\A p \in Procs :
          (pc[p] = "c_voice" /\ pc'[p] = "c_welcome")
          => assigned_team[p] \notin DOMAIN teams
      ]_vars

\* C17: a registered team is never destroyed or replaced: in every step each
\* team of the registry keeps its id and its four handles, and its roster
\* either stays, or gains at its end the user of the join assigned to it, or
\* loses one entry of the user whose leave takes the step.
C17_TeamNeverReplaced ==
    [][\A t \in DOMAIN teams :
          /\ t \in DOMAIN teams'
          /\ Handles(t)' = Handles(t)
          /\ \/ Roster(t)' = Roster(t)
             \/ \E p \in Procs :
                   /\ Steps(p)
                   /\ pc'[p] = "j_add_roles"
                   /\ assigned_team'[p] = t
                   /\ Roster(t)' = Append(Roster(t), user'[p])
             \/ \E p \in Procs :
                   /\ Steps(p)
                   /\ pc'[p] = "l_remove_roles"
                   /\ \E i \in DOMAIN Roster(t) :
                         /\ Roster(t)[i] = user'[p]
                         /\ Roster(t)' = WithoutIndex(Roster(t), i)
      ]_vars

\* C18: in every reachable state no roster holds the same user twice.
C18_NoDuplicateInRoster ==
    \A t \in DOMAIN teams : \A i, j \in DOMAIN Roster(t) :
        Roster(t)[i] = Roster(t)[j] => i = j

\* C19: the steps of one team creation come in a fixed order: the category is
\* known before the member role is requested, the coach role follows the
\* member role, the text channel the coach role, the voice channel the text
\* channel; the creation writes the registry only when the voice channel
\* exists, and then stores the team with an empty roster; the joining user is
\* appended only afterwards, to a team that is in the registry.
C19_ProvisioningOrder ==
    [][\A p \in Procs : Steps(p) =>
          /\ pc'[p] = "c_category"    => pc[p] = "idle" /\ teams_category' = 0
          /\ pc'[p] = "c_member_role" => pc[p] \in {"idle", "c_category"} /\ teams_category' # 0
          /\ pc'[p] = "c_coach_role"  => pc[p] = "c_member_role"
          /\ pc'[p] = "c_text"        => pc[p] = "c_coach_role"
          /\ pc'[p] = "c_voice"       => pc[p] = "c_text"
          /\ pc'[p] = "c_welcome"     =>
                /\ pc[p] = "c_voice"
                /\ assigned_team[p] \in DOMAIN teams'
                /\ teams'[assigned_team[p]].members = <<>>
          /\ (pc'[p] \in ProvisioningPcs \/ pc[p] \in ProvisioningPcs \ {"c_voice"})
                => UNCHANGED teams
          /\ pc[p] = "c_welcome" /\ pc'[p] = "j_add_roles" =>
                /\ assigned_team[p] \in DOMAIN teams
                /\ teams' = AddMember(teams, assigned_team[p], user[p])
      ]_vars

\* A creation has obtained all its resources and has stored its team, whose
\* roster is still empty: the user is not appended yet.
C19_Witness ==
    \E p \in Procs :
        /\ pc[p] = "c_welcome"
        /\ assigned_team[p] \in DOMAIN teams
        /\ Handles(assigned_team[p]) = <<RoleId(attempt[p]), CoachRoleId(attempt[p]),
                                         TextId(attempt[p]), VoiceId(attempt[p])>>
        /\ Roster(assigned_team[p]) = <<>>

\* The file holds the team numbers and the rosters of the registry (no file
\* stands for the empty registry).
SnapshotMatchesRegistry ==
    IF snapshot.exists
    THEN /\ DOMAIN snapshot.teams = {IntToStr(t) : t \in DOMAIN teams}
         /\ \A t \in DOMAIN teams : snapshot.teams[IntToStr(t)].members = Roster(t)
    ELSE teams = <<>>

\* C13: whenever no join and no leave (team creation included) is in
\* progress and no write of the file has failed, the file holds the team
\* numbers and rosters of the registry, also after requests that ended with
\* an error.
C13_SnapshotFollowsRegistry ==
    (/\ \A p \in Procs : pc[p] \notin JoinPcs \cup LeavePcs
     /\ ~writeFailed)
    => SnapshotMatchesRegistry

\* C14: a write of the file that fails does not abort the request that
\* triggered it: in the step in which the write fails, the handler goes on
\* on its success path (the creating join appends its user, the join, the
\* leave and the setup go on to their answer) and the registry keeps what
\* the request has written.
C14_SaveFailureDoesNotAbort ==
    [][(~writeFailed /\ writeFailed' /\ phase' # "down") =>
          \E p \in Procs :
              /\ Steps(p)
              /\ \/ /\ pc[p] = "c_welcome"
                    /\ pc'[p] = "j_add_roles"
                    /\ teams' = AddMember(teams, assigned_team[p], user[p])
                 \/ /\ pc[p] = "j_add_roles"
                    /\ pc'[p] = "j_respond"
                    /\ teams' = teams
                 \/ /\ pc[p] = "l_remove_roles"
                    /\ pc'[p] = "l_respond"
                    /\ teams' = teams
                 \/ /\ pc[p] = "s_post"
                    /\ pc'[p] = "s_followup"
                    /\ teams' = teams
      ]_vars

\* A join whose write of the file failed awaits its success answer: its user
\* is in the roster and the file does not hold the registry.
C14_Witness ==
    \E p \in Procs :
        /\ writeFailed
        /\ pc[p] = "j_respond"
        /\ assigned_team[p] \in DOMAIN teams
        /\ InRoster(Roster(assigned_team[p]), user[p])
        /\ ~SnapshotMatchesRegistry

\* C15: the registry is restored from the file before any request is
\* accepted: while a join, leave or setup is being handled, load_teams_data
\* has run in this process.
C15_RestoreBeforeRequests ==
    \A p \in Procs : pc[p] # "idle" => loaded

\* C20: the teams of the file are not lost by a restart: no step in which no
\* write fails removes from the file a team whose four handles resolve.
C20_PersistedTeamsKept ==
    [][~writeFailed' =>
          \A k \in DOMAIN snapshot.teams :
              TeamResolves(snapshot.teams[k]) => k \in DOMAIN snapshot'.teams
      ]_vars

\* C11: round trip: when every handle of the registry resolves, saving the
\* registry and loading the file into an empty registry gives the registry
\* again: the same integer team numbers, the same rosters in the same order
\* and the same four handles per team.
C11_RoundTrip ==
    (\A t \in DOMAIN teams : \A i \in 1..4 : Resolves(Handles(t)[i]))
    => LoadTeams(<<>>, SnapshotOf(teams, teams_category)) = teams

\* A process has loaded the file a previous process saved, with nothing
\* deleted: teams 2 and 10 are back, team 10 with its roster of two.
C11_Witness ==
    /\ phase = "ready"
    /\ snapshot.exists
    /\ deleted = {}
    /\ {2, 10} \subseteq DOMAIN teams
    /\ Roster(10) = <<2, 1>>
    /\ snapshot = SnapshotOf(teams, teams_category)

\* C12: in the step of on_ready that loads the file into the registry of a
\* new process, a team is in the registry afterwards exactly when the file
\* has it under its number with four handles that resolve, and it then has
\* the roster and the four handles of the file: a team with a handle that
\* does not resolve is absent, never there in part.
C12_RestoreDropsInvalidTeams ==
    [][(phase = "syncing" /\ phase' = "ready" /\ guild_id /\ snapshot.exists) =>
          /\ \A t \in DOMAIN teams' :
                \/ t \in DOMAIN teams /\ teams'[t] = teams[t]
                \/ /\ IntToStr(t) \in DOMAIN snapshot.teams
                   /\ LET td == snapshot.teams[IntToStr(t)]
                      IN  /\ \A id \in {td.role_id, td.coach_role_id,
                                         td.text_channel_id, td.voice_channel_id} :
                                id \notin deleted
                          /\ teams'[t] = [members |-> td.members,
                                          role |-> td.role_id,
                                          coach_role |-> td.coach_role_id,
                                          text |-> td.text_channel_id,
                                          voice |-> td.voice_channel_id]
          /\ \A k \in DOMAIN snapshot.teams :
                LET td == snapshot.teams[k]
                IN  ({td.role_id, td.coach_role_id, td.text_channel_id,
                      td.voice_channel_id} \cap deleted = {})
                    => \E t \in DOMAIN teams' : IntToStr(t) = k
      ]_vars

\* The file has been loaded after the text channel of a saved team was
\* deleted: that team is not in the registry, another team of the file is,
\* with its roster.
C12_Witness ==
    /\ phase = "ready"
    /\ loaded
    /\ \E k \in DOMAIN snapshot.teams :
          /\ snapshot.teams[k].text_channel_id \in deleted
          /\ \A t \in DOMAIN teams : IntToStr(t) # k
    /\ \E t \in DOMAIN teams :
          /\ IntToStr(t) \in DOMAIN snapshot.teams
          /\ Roster(t) # <<>>
          /\ Roster(t) = snapshot.teams[IntToStr(t)].members
====
